---- MODULE Spec2Model ----
(***************************************************************************)
(* A model of springcraft: the ANM class of anm.py (lazily computed and    *)
(* cached matrices with their invalidation rules, normal_mode) and the     *)
(* interaction-matrix construction of interaction.py (adjacency resolver,  *)
(* Kirchhoff and Hessian builders).                                        *)
(*                                                                         *)
(* Numbers.  A symmetric matrix handled by the ANM class is represented by *)
(* its shape and its eigenvalues in one fixed orthonormal eigenbasis; an   *)
(* eigenvalue is <<0, 0>> (zero) or <<1, k>> (the value 2^k).  On such a   *)
(* matrix np.linalg.pinv(hermitian=True, rcond) acts on the eigenvalues.   *)
(***************************************************************************)
EXTENDS Integers, Sequences, FiniteSets, TLC

VARIABLES
    m,      \* the ANM object: its five cache fields
    prev,   \* the cache fields before the last operation
    op,     \* the last operation on the ANM object
    arg,    \* the value assigned by the last operation (None for a read)
    ret,    \* the value the last operation returned (None if it raised)
    err,    \* the exception the last operation raised ("none" if it returned)
    inp,    \* the arguments of a call of compute_kirchhoff, compute_hessian,
            \* the adjacency resolver or normal_mode
    call,   \* the function that was called with them ("none" before the call)
    out     \* what the call returned or raised

anmVars == <<m, prev, op, arg, ret, err>>

interactionVars == <<inp, call, out>>

vars == <<m, prev, op, arg, ret, err, inp, call, out>>

(* ------------------------------ bounds -------------------------------- *)

\* n, the number of atoms of the model (len(self._coord)).
NAtoms == 2

\* Depth at which the interpreter stops nested calls with RecursionError.
RecursionLimit == 3

(* ------------------------------ values -------------------------------- *)

\* rcond=1e-6 of the pinv calls: 2^-k > 1e-6 exactly when k <= 19.
RcondBits == 19

Dim == 3 * NAtoms

None == [kind |-> "none", shape |-> <<>>, data |-> <<>>]

Array(shape, data) == [kind |-> "array", shape |-> shape, data |-> data]

EigZero == <<0, 0>>

Eig(k) == <<1, k>>

\* The eigenvalues a, b, b, ..., b.
Spectrum(a, b) == [i \in 1..Dim |-> IF i = 1 THEN a ELSE b]

\* Values of shape (3n,3n) a caller may assign.
ValidMatrices ==
    { Array(<<Dim, Dim>>, Spectrum(a, b)) :
        a \in {EigZero, Eig(0)}, b \in {Eig(0), Eig(20)} }

\* Values of another shape: one column too many, and a 1-D array.
InvalidArrays ==
    { Array(<<Dim, Dim + 1>>, <<>>), Array(<<Dim>>, <<>>) }

Assignable == ValidMatrices \cup InvalidArrays

MaxOf(S) == CHOOSE x \in S : \A y \in S : y <= x

\* np.linalg.pinv(a, hermitian=True, rcond=1e-6): eigenvalues whose
\* magnitude is at most rcond * (largest magnitude) become 0, the others
\* are inverted.
pinv(a) ==
    LET s == a.data
        nz == { i \in DOMAIN s : s[i][1] # 0 }
        top == MaxOf({ s[i][2] : i \in nz })
        large(i) == i \in nz /\ top - s[i][2] <= RcondBits
    IN Array(a.shape,
             [i \in DOMAIN s |-> IF large(i) THEN <<s[i][1], 0 - s[i][2]>>
                                 ELSE EigZero])

\* compute_hessian(self._coord, self._ff, self._use_cell_list)[0] for the
\* atoms and force field the model was constructed with.
ComputedHessian == Array(<<Dim, Dim>>, Spectrum(EigZero, Eig(1)))

\* The residue masses, each repeated three times: a 1-D array of length 3n.
Masses == Array(<<Dim>>, [i \in 1..Dim |-> Eig(0)])

(* --------------------------- the ANM class ---------------------------- *)

Return(s, v) == [m |-> s, ret |-> v, err |-> "none"]

Raise(s, e) == [m |-> s, ret |-> None, err |-> e]

\* value.shape != (len(self._coord) * 3, len(self._coord) * 3)
ShapeMismatch(v) == v.shape # <<Dim, Dim>>

\* ANM.__init__
NewModel ==
    [mass_weights |-> None, hessian |-> None, hessian_mw |-> None,
     covariance |-> None, covariance_mw |-> None]

mass_weights_get(s) ==
    IF s.mass_weights = None
    THEN Return([s EXCEPT !.mass_weights = Masses], Masses)
    ELSE Return(s, s.mass_weights)

mass_weights_set(s, v) ==
    IF ShapeMismatch(v) THEN Raise(s, "IndexError")
    ELSE Return([s EXCEPT !.mass_weights = v,
                          !.hessian_mw = None,
                          !.covariance_mw = None], None)

\* hessian_get without its use of a cached covariance: the Hessian is always
\* computed from the atoms and the force field.  C11 fails on it.
hessian_get_from_scratch(s) ==
    IF s.hessian = None
    THEN Return([s EXCEPT !.hessian = ComputedHessian], ComputedHessian)
    ELSE Return(s, s.hessian)

hessian_get(s) ==
    IF s.hessian = None
    THEN LET h == IF s.covariance = None THEN ComputedHessian
                  ELSE pinv(s.covariance)
         IN Return([s EXCEPT !.hessian = h], h)
    ELSE Return(s, s.hessian)

\* hessian_set without its invalidation of the covariance: C1 fails on it.
hessian_set_keep(s, v) ==
    IF ShapeMismatch(v) THEN Raise(s, "IndexError")
    ELSE Return([s EXCEPT !.hessian = v], None)

hessian_set(s, v) ==
    IF ShapeMismatch(v) THEN Raise(s, "IndexError")
    ELSE Return([s EXCEPT !.hessian = v, !.covariance = None], None)

covariance_get(s) ==
    IF s.covariance = None
    THEN LET h == hessian_get(s)
             c == pinv(h.ret)
         IN Return([h.m EXCEPT !.covariance = c], c)
    ELSE Return(s, s.covariance)

\* covariance_set without its invalidation of the Hessian: the amended C4
\* fails on it.
covariance_set_keep(s, v) ==
    IF ShapeMismatch(v) THEN Raise(s, "IndexError")
    ELSE Return([s EXCEPT !.covariance = v], None)

covariance_set(s, v) ==
    IF ShapeMismatch(v) THEN Raise(s, "IndexError")
    ELSE Return([s EXCEPT !.covariance = v, !.hessian = None], None)

\* The function under "@property def covariance_mw".  Both class attributes
\* covariance_mw and hessian_mw end up with this function as their getter
\* (see covariance_mw_fset), so the read of self.hessian_mw inside it is a
\* nested call of itself; depth counts the nested calls.  The function has
\* no return statement: a call that returns, returns None.
RECURSIVE covariance_mw_fget(_, _)
covariance_mw_fget(s, depth) ==
    IF depth > RecursionLimit THEN Raise(s, "RecursionError")
    ELSE IF s.covariance_mw = None
    THEN LET inner == covariance_mw_fget(s, depth + 1)
         IN IF inner.err # "none" THEN inner
            ELSE IF inner.ret = None THEN Raise(inner.m, "LinAlgError")
            ELSE Return([inner.m EXCEPT !.covariance_mw = pinv(inner.ret)],
                        None)
    ELSE Return(s, None)

\* The function under "@covariance_mw.setter": it is named hessian_mw, so
\* the property it builds (covariance_mw's getter with this setter) is bound
\* to the class attribute hessian_mw, replacing the property of lines
\* 119-134, and covariance_mw keeps a property without a setter.
covariance_mw_fset(s, v) ==
    IF ShapeMismatch(v) THEN Raise(s, "IndexError")
    ELSE Return([s EXCEPT !.covariance_mw = v,
                          !.mass_weights = None,
                          !.hessian_mw = None], None)

\* Reading the attribute hessian_mw.
hessian_mw_get(s) == covariance_mw_fget(s, 1)

\* Assigning the attribute hessian_mw.
hessian_mw_set(s, v) == covariance_mw_fset(s, v)

\* Reading the attribute covariance_mw.
covariance_mw_get(s) == covariance_mw_fget(s, 1)

\* Assigning the attribute covariance_mw: its property has no setter.
covariance_mw_set(s, v) == Raise(s, "AttributeError")

(* The methods below read the properties hessian and covariance.  In the   *)
(* fixed eigenbasis, taken to be the standard basis, the diagonal of a     *)
(* matrix is its spectrum and a vector is the sequence of its components.  *)

\* x < y for two eigenvalues.
Less(x, y) == IF x[1] = 0 THEN y[1] # 0 ELSE y[1] # 0 /\ x[2] < y[2]

\* The product of two numbers that are 0 or a power of two.
Times(x, y) == IF x[1] = 0 \/ y[1] = 0 THEN EigZero ELSE <<1, x[2] + y[2]>>

\* ANM.eigen: the eigenvalues of self.hessian in ascending order (the
\* eigenvectors are those of the fixed basis).
eigen(s) ==
    LET h == hessian_get(s)
    IN Return(h.m, Array(<<Dim>>, SortSeq(h.ret.data, Less)))

\* Forces a caller may pass to linear_response: of shape (n,3) or (3n,),
\* and of three other shapes.
Forces ==
    { Array(shape, [i \in 1..Dim |-> IF i = 1 THEN Eig(1) ELSE f]) :
        shape \in {<<NAtoms, 3>>, <<Dim>>}, f \in {EigZero, Eig(0)} }
    \cup { Array(<<NAtoms, 2>>, <<>>), Array(<<Dim + 1>>, <<>>),
           Array(<<NAtoms, 3, 1>>, <<>>) }

\* ANM.linear_response: the force is validated before self.covariance is
\* read.
linear_response(s, force) ==
    LET ndim == Len(force.shape)
    IN IF ndim = 2 /\ force.shape # <<NAtoms, 3>> THEN Raise(s, "ValueError")
       ELSE IF ndim = 1 /\ force.shape[1] # Dim THEN Raise(s, "ValueError")
       ELSE IF ndim \notin {1, 2} THEN Raise(s, "ValueError")
       ELSE LET c == covariance_get(s)
            IN Return(c.m,
                      Array(<<NAtoms, 3>>,
                            [i \in 1..Dim |->
                                Times(c.ret.data[i], force.data[i])]))

\* np.sum over the three diagonal entries of atom a: the sum of powers of
\* two is given by its terms, as pairs <<exponent, number of such terms>>.
SumOfDiagonal(d, a) ==
    LET idx == { 3 * (a - 1) + x : x \in 1..3 }
        exps == { d[i][2] : i \in { j \in idx : d[j][1] # 0 } }
    IN { <<k, Cardinality({ i \in idx : d[i] = Eig(k) })>> : k \in exps }

\* ANM.mean_square_fluctuation
mean_square_fluctuation(s) ==
    LET c == covariance_get(s)
    IN Return(c.m,
              Array(<<NAtoms>>,
                    [a \in 1..NAtoms |-> SumOfDiagonal(c.ret.data, a)]))

(* --------------------------- interaction.py --------------------------- *)
(* Coordinates are integers.  A Kirchhoff entry is an integer.  A Hessian *)
(* entry is <<0, x>>, the number x / Den, or <<1, 0>>, NaN: every squared *)
(* distance that occurs divides Den, so the quotient                      *)
(* force_constant / sq_dist is a whole number of 1/Den.                   *)

\* Longest contact_pair_off and contact_pair_on lists.
MaxOff == 2

MaxOn == 1

Atoms == 0..(NAtoms - 1)

Points == { <<0, 0, 0>>, <<1, 0, 0>>, <<1, 1, 1>> }

\* The squared distances between two of the Points are 0, 1, 2 and 3.
Den == 2 * 3

Axes == 1..3

\* A cutoff_distance, natoms or override list that is None is <<>>; one
\* that is given is <<value>>.
Absent == <<>>

Given(x) == <<x>>

IsGiven(x) == x # <<>>

ValueOf(x) == x[1]

Range(f) == { f[i] : i \in DOMAIN f }

RECURSIVE SumOver(_, _)
SumOver(f, S) ==
    IF S = {} THEN 0
    ELSE LET x == CHOOSE y \in S : TRUE IN f[x] + SumOver(f, S \ {x})

\* Position of the pair in row-major order, as np.where lists the True
\* entries of the adjacency matrix.
RowMajor(p) == p[1] * NAtoms + p[2]

AsPairList(S) ==
    [k \in 1..Cardinality(S) |->
        CHOOSE p \in S :
            Cardinality({ q \in S : RowMajor(q) < RowMajor(p) }) = k - 1]

SqNorm(d) == d[1] * d[1] + d[2] * d[2] + d[3] * d[3]

Minus(a, b) == [x \in Axes |-> a[x] - b[x]]

\* struc.index_displacement(coord, pairs): coord[j] - coord[i].
index_displacement(coord, p) == Minus(coord[p[2]], coord[p[1]])

\* disp_matrix[i, j] of struc.displacement(coord[np.newaxis, :, :],
\* coord[:, np.newaxis, :]): the second argument minus the first, that is
\* coord[i] - coord[j].
disp_matrix(coord, p) == Minus(coord[p[1]], coord[p[2]])

\* cell_list.create_adjacency_matrix(cutoff_distance): the pairs of atoms,
\* an atom with itself included, at most cutoff_distance apart.
create_adjacency_matrix(coord, cutoff) ==
    { p \in Atoms \X Atoms :
        SqNorm(index_displacement(coord, p)) <= cutoff * cutoff }

Failed(e) ==
    [err |-> e, pairs |-> <<>>, disp |-> <<>>, sq_dist |-> <<>>, matrix |-> <<>>]

\* _patch_adjacency_matrix without the clearing of the contact_pair_off
\* entries: the amended C7 fails on it.
_patch_adjacency_matrix_on_only(matrix, contact_pair_off, contact_pair_on, empty_raises) ==
    LET off == IF IsGiven(contact_pair_off) THEN ValueOf(contact_pair_off) ELSE <<>>
        on == IF IsGiven(contact_pair_on) THEN ValueOf(contact_pair_on) ELSE <<>>
        any1 == \E k \in DOMAIN off : off[k][2] # 0
        test == [k \in DOMAIN off |-> off[k][1] = (IF any1 THEN 1 ELSE 0)]
    IN  IF ~IsGiven(contact_pair_on) THEN [err |-> "none", matrix |-> matrix]
        ELSE IF ~IsGiven(contact_pair_off) THEN [err |-> "TypeError", matrix |-> matrix]
        ELSE IF Len(test) > 1 THEN [err |-> "ValueError", matrix |-> matrix]
        ELSE IF Len(test) = 0 /\ empty_raises THEN [err |-> "ValueError", matrix |-> matrix]
        ELSE IF Len(test) = 1 /\ test[1] THEN [err |-> "ValueError", matrix |-> matrix]
        ELSE [err |-> "none", matrix |-> matrix \cup Range(on)]

\* The adjacency matrix is the set of its True entries.  empty_raises is
\* the installed numpy's answer to the truth value of an empty array: an
\* error, or False with a deprecation warning.
_patch_adjacency_matrix(matrix, contact_pair_off, contact_pair_on, empty_raises) ==
    LET off == IF IsGiven(contact_pair_off) THEN ValueOf(contact_pair_off) ELSE <<>>
        on == IF IsGiven(contact_pair_on) THEN ValueOf(contact_pair_on) ELSE <<>>
        cleared == matrix \ Range(off)
        \* (contact_pair_off[:,0]) == (contact_pair_off[:,1]).any()
        any1 == \E k \in DOMAIN off : off[k][2] # 0
        test == [k \in DOMAIN off |-> off[k][1] = (IF any1 THEN 1 ELSE 0)]
    IN  IF ~IsGiven(contact_pair_on) THEN [err |-> "none", matrix |-> cleared]
        \* contact_pair_off[:,0] of None
        ELSE IF ~IsGiven(contact_pair_off) THEN [err |-> "TypeError", matrix |-> cleared]
        \* the truth value of an array with more than one element
        ELSE IF Len(test) > 1 THEN [err |-> "ValueError", matrix |-> cleared]
        ELSE IF Len(test) = 0 /\ empty_raises THEN [err |-> "ValueError", matrix |-> cleared]
        \* "Cannot turn on interaction of an atom with itself"
        ELSE IF Len(test) = 1 /\ test[1] THEN [err |-> "ValueError", matrix |-> cleared]
        ELSE [err |-> "none", matrix |-> cleared \cup Range(on)]

_prepare_values_for_interaction_matrix(a, empty_raises) ==
    LET coord == a.coord
        cutoff_distance == a.force_field.cutoff_distance
        natoms == a.force_field.natoms
        brute == IsGiven(cutoff_distance) /\ ~a.use_cell_list
        adj_matrix ==
            IF ~IsGiven(cutoff_distance) THEN Atoms \X Atoms
            ELSE IF a.use_cell_list
            THEN create_adjacency_matrix(coord, ValueOf(cutoff_distance))
            ELSE { p \in Atoms \X Atoms :
                     SqNorm(disp_matrix(coord, p))
                        <= ValueOf(cutoff_distance) * ValueOf(cutoff_distance) }
        no_diagonal == { p \in adj_matrix : p[1] # p[2] }
        patched == _patch_adjacency_matrix(
                       no_diagonal, a.contact_pair_off, a.contact_pair_on,
                       empty_raises)
        pairs == AsPairList(patched.matrix)
        disp == [k \in DOMAIN pairs |->
                    IF brute THEN disp_matrix(coord, pairs[k])
                    ELSE index_displacement(coord, pairs[k])]
        sq_dist == [k \in DOMAIN pairs |-> SqNorm(disp[k])]
    IN  IF \E i \in Atoms : Len(coord[i]) # 3 THEN Failed("ValueError")
        ELSE IF IsGiven(natoms) /\ NAtoms # ValueOf(natoms) THEN Failed("ValueError")
        ELSE IF patched.err # "none" THEN Failed(patched.err)
        ELSE [err |-> "none", pairs |-> pairs, disp |-> disp,
              sq_dist |-> sq_dist, matrix |-> <<>>]

\* force_field.force_constant(i, j, sq_dist) of the three kinds of force
\* field: the same constant for every pair, one that depends on the
\* distance, one that depends on the two atoms.
force_constant(kind, i, j, sq) ==
    CASE kind = "uniform" -> 1
      [] kind = "distance" -> 2 * sq
      [] kind = "typed" -> 1 + i + j

compute_kirchhoff(a, empty_raises) ==
    LET v == _prepare_values_for_interaction_matrix(a, empty_raises)
        pairs == v.pairs
        force_constants ==
            [k \in DOMAIN pairs |->
                force_constant(a.force_field.kind, pairs[k][1], pairs[k][2],
                               v.sq_dist[k])]
        filled == [p \in Atoms \X Atoms |->
                      IF p \in Range(pairs)
                      THEN LET k == CHOOSE x \in DOMAIN pairs : pairs[x] = p
                           IN 0 - force_constants[k]
                      ELSE 0]
        \* np.sum(kirchhoff, axis=0)[j]: the sum over the first index.
        sum0 == [j \in Atoms |->
                    SumOver([i \in Atoms |-> filled[<<i, j>>]], Atoms)]
        kirchhoff == [p \in Atoms \X Atoms |->
                         IF p[1] = p[2] THEN 0 - sum0[p[1]] ELSE filled[p]]
    IN  IF v.err # "none" THEN v
        ELSE [v EXCEPT !.matrix = kirchhoff]

Num(x) == <<0, x>>

NaN == <<1, 0>>

IsNaN(x) == x[1] = 1

Add(x, y) == IF IsNaN(x) \/ IsNaN(y) THEN NaN ELSE Num(x[2] + y[2])

Neg(x) == IF IsNaN(x) THEN NaN ELSE Num(0 - x[2])

RECURSIVE SumNum(_, _)
SumNum(f, S) ==
    IF S = {} THEN Num(0)
    ELSE LET x == CHOOSE y \in S : TRUE IN Add(f[x], SumNum(f, S \ {x}))

\* -force_constant / sq_dist * disp[a] * disp[b]; with sq_dist = 0 the
\* displacement is 0 too and the product of an infinity (or 0/0) and 0 is NaN.
hessian_element(fc, sq, d, x, y) ==
    IF sq = 0 THEN NaN
    ELSE Num((0 - fc) * (Den \div sq) * d[x] * d[y])

compute_hessian(a, empty_raises) ==
    LET v == _prepare_values_for_interaction_matrix(a, empty_raises)
        pairs == v.pairs
        force_constants ==
            [k \in DOMAIN pairs |->
                force_constant(a.force_field.kind, pairs[k][1], pairs[k][2],
                               v.sq_dist[k])]
        \* hessian[i, j, x, y] of the (n,n,3,3) array
        filled == [p \in Atoms \X Atoms |-> [x \in Axes |-> [y \in Axes |->
                      IF p \in Range(pairs)
                      THEN LET k == CHOOSE z \in DOMAIN pairs : pairs[z] = p
                           IN hessian_element(force_constants[k], v.sq_dist[k],
                                              v.disp[k], x, y)
                      ELSE Num(0)]]]
        \* np.sum(hessian, axis=0)[j]: the sum over the first index.
        sum0 == [j \in Atoms |-> [x \in Axes |-> [y \in Axes |->
                    SumNum([i \in Atoms |-> filled[<<i, j>>][x][y]], Atoms)]]]
        blocks == [p \in Atoms \X Atoms |-> [x \in Axes |-> [y \in Axes |->
                      IF p[1] = p[2] THEN Neg(sum0[p[1]][x][y])
                      ELSE filled[p][x][y]]]]
        \* np.transpose(hessian, (0, 2, 1, 3)).reshape(3n, 3n): rows and
        \* columns counted from 0
        flat == [r \in 0..(Dim - 1) |-> [c \in 0..(Dim - 1) |->
                    blocks[<<r \div 3, c \div 3>>][(r % 3) + 1][(c % 3) + 1]]]
    IN  IF v.err # "none" THEN v
        ELSE [v EXCEPT !.matrix = flat]

(* ------------------------ calls into interaction.py ------------------- *)

NoInput ==
    [coord |-> <<>>, force_field |-> [natoms |-> Absent, cutoff_distance |-> Absent,
                                      kind |-> "uniform"],
     use_cell_list |-> TRUE, contact_pair_off |-> Absent, contact_pair_on |-> Absent]

NoOutput == Failed("none")

\* Lists of at most k different pairs of atom indices, in row-major order.
PairLists(k) ==
    { AsPairList(S) : S \in { T \in SUBSET (Atoms \X Atoms) : Cardinality(T) <= k } }

Overrides(k) == {Absent} \cup { Given(l) : l \in PairLists(k) }

Cutoffs == {Absent, Given(1)}

\* Arguments of a call for force fields of the given kinds.  A coordinate
\* array with two columns and a force field built for another number of
\* atoms are rejected before anything else is read, so they come with one
\* choice of the rest.
Inputs(kinds) ==
    { [coord |-> c, force_field |-> [natoms |-> Absent, cutoff_distance |-> d,
                                     kind |-> f],
       use_cell_list |-> u, contact_pair_off |-> off, contact_pair_on |-> on] :
        c \in [Atoms -> Points], d \in Cutoffs, f \in kinds, u \in BOOLEAN,
        off \in Overrides(MaxOff), on \in Overrides(MaxOn) }
    \cup
    { [coord |-> c, force_field |-> [natoms |-> k, cutoff_distance |-> Given(1),
                                     kind |-> f],
       use_cell_list |-> TRUE, contact_pair_off |-> Absent, contact_pair_on |-> Absent] :
        c \in [Atoms -> Points] \cup {[i \in Atoms |-> <<0, 0>>]}, f \in kinds,
        k \in {Given(NAtoms), Given(NAtoms + 1)} }

ForceFieldKinds == {"uniform", "distance", "typed"}

Prepare ==
    /\ call = "none"
    /\ \E e \in BOOLEAN :
          out' = _prepare_values_for_interaction_matrix(inp, e)
    /\ call' = "_prepare_values_for_interaction_matrix"
    /\ UNCHANGED <<inp, anmVars>>

Kirchhoff ==
    /\ call = "none"
    /\ \E e \in BOOLEAN : out' = compute_kirchhoff(inp, e)
    /\ call' = "compute_kirchhoff"
    /\ UNCHANGED <<inp, anmVars>>

Hessian ==
    /\ call = "none"
    /\ \E e \in BOOLEAN : out' = compute_hessian(inp, e)
    /\ call' = "compute_hessian"
    /\ UNCHANGED <<inp, anmVars>>

AnmIdle ==
    /\ m = NewModel
    /\ prev = NewModel
    /\ op = "init"
    /\ arg = None
    /\ ret = None
    /\ err = "none"

InitResolver ==
    /\ AnmIdle
    /\ inp \in Inputs({"uniform"})
    /\ call = "none"
    /\ out = NoOutput

SpecResolver == InitResolver /\ [][Prepare]_vars

InitBuilders ==
    /\ AnmIdle
    /\ inp \in Inputs(ForceFieldKinds)
    /\ call = "none"
    /\ out = NoOutput

NextBuilders == Kirchhoff \/ Hessian

SpecBuilders == InitBuilders /\ [][NextBuilders]_vars

(* -------------------------- ANM.normal_mode --------------------------- *)
(* eigen() reads self.hessian and diagonalises it.  The row                *)
(* eigenvectors[index], reshaped to (n,3), is an argument of the model: a  *)
(* vector of integers per atom, standing for the unit eigenvector it is    *)
(* proportional to (normal_mode divides by the largest per-atom length, so *)
(* the common factor cancels).  A waveform factor is kept by what decides  *)
(* the size of a displacement: 0 if it is 0, 2 if its magnitude is 1, and  *)
(* 1 if its magnitude lies strictly between.                               *)

\* Largest number of frames and largest amplitude asked for.
MaxFrames == 12

MaxAmplitude == 2

\* Per-atom parts of an eigenvector, of lengths 0, 1 and 5.
AtomVectors == { <<0, 0, 0>>, <<1, 0, 0>>, <<0, 3, 4>> }

Movements == {"sine", "triangle", "square"}

\* The integer square root of a perfect square.
Sqrt(x) == CHOOSE r \in 0..x : r * r = x

Abs(x) == IF x < 0 THEN 0 - x ELSE x

Magnitude(num, den) ==
    IF num = 0 THEN 0 ELSE IF Abs(num) = den THEN 2 ELSE 1

\* np.cos(time * 2*np.pi) at time = k / frames, in place of the sine: the
\* amended C10 fails on it.
cosine_wave(k, frames) ==
    IF (4 * k) % frames # 0 THEN 1
    ELSE IF ((4 * k) \div frames) % 2 = 0 THEN 2 ELSE 0

\* np.sin(time * 2*np.pi) at time = k / frames: the angle is 4k/frames
\* quarter turns; the sine is 0 at an even number of quarter turns, 1 or -1
\* at an odd number, and strictly between otherwise.
sine_wave(k, frames) ==
    IF (4 * k) % frames # 0 THEN 1
    ELSE IF ((4 * k) \div frames) % 2 = 0 THEN 0 ELSE 2

\* 2 * np.abs(2 * (time - np.floor(time + 0.5))) - 1 at time = k / frames,
\* which is (4 * |k - frames * floor| - frames) / frames.
triangle_wave(k, frames) ==
    LET floor == (2 * k + frames) \div (2 * frames)
    IN Magnitude(4 * Abs(k - frames * floor) - frames, frames)

\* What normal_mode returns: per frame the waveform factor, per atom the
\* length amplitude * length / (largest length) of its rescaled vector as
\* the fraction <<numerator, denominator>>; hessian is self.hessian as
\* eigen() read (and cached) it.
normal_mode(s, a) ==
    LET h == hessian_get(s)
        mode_vectors == a.mode_vectors
        vector_lenghts == [i \in Atoms |-> Sqrt(SqNorm(mode_vectors[i]))]
        longest == MaxOf({ vector_lenghts[i] : i \in Atoms })
        scaled == [i \in Atoms |-> <<a.amplitude * vector_lenghts[i], longest>>]
        \* np.linspace(0, 1, frames, endpoint=False)
        time == 0..(a.frames - 1)
        normed_disp ==
            [k \in time |-> IF a.movement = "sine" THEN sine_wave(k, a.frames)
                            ELSE triangle_wave(k, a.frames)]
    IN  IF a.movement \notin {"sine", "triangle"}
        THEN [m |-> h.m, err |-> "ValueError", normed_disp |-> <<>>, lengths |-> <<>>]
        ELSE [m |-> h.m, err |-> "none", normed_disp |-> normed_disp,
              lengths |-> scaled]

ModeInputs ==
    { [mode_vectors |-> v, amplitude |-> a, frames |-> f, movement |-> w] :
        v \in { u \in [Atoms -> AtomVectors] : \E i \in Atoms : u[i] # <<0, 0, 0>> },
        a \in 1..MaxAmplitude, f \in 1..MaxFrames, w \in Movements }

NormalMode ==
    /\ call = "none"
    /\ LET r == normal_mode(m, inp)
       IN /\ m' = r.m
          /\ out' = [err |-> r.err, normed_disp |-> r.normed_disp,
                     lengths |-> r.lengths]
    /\ call' = "normal_mode"
    /\ UNCHANGED <<inp, prev, op, arg, ret, err>>

InitMode ==
    /\ AnmIdle
    /\ inp \in ModeInputs
    /\ call = "none"
    /\ out = NoOutput

SpecMode == InitMode /\ [][NormalMode]_vars

(* ------------------------- operations on a model ---------------------- *)

Do(name, v, r) ==
    /\ prev' = m
    /\ op' = name
    /\ arg' = v
    /\ m' = r.m
    /\ ret' = r.ret
    /\ err' = r.err
    /\ UNCHANGED interactionVars

GetMassWeights == Do("get_mass_weights", None, mass_weights_get(m))

SetMassWeights == \E v \in Assignable : Do("set_mass_weights", v, mass_weights_set(m, v))

GetHessian == Do("get_hessian", None, hessian_get(m))

SetHessian == \E v \in Assignable : Do("set_hessian", v, hessian_set(m, v))

GetHessianMw == Do("get_hessian_mw", None, hessian_mw_get(m))

SetHessianMw == \E v \in Assignable : Do("set_hessian_mw", v, hessian_mw_set(m, v))

GetCovariance == Do("get_covariance", None, covariance_get(m))

SetCovariance == \E v \in Assignable : Do("set_covariance", v, covariance_set(m, v))

GetCovarianceMw == Do("get_covariance_mw", None, covariance_mw_get(m))

SetCovarianceMw == \E v \in Assignable : Do("set_covariance_mw", v, covariance_mw_set(m, v))

Eigen == Do("eigen", None, eigen(m))

LinearResponse == \E f \in Forces : Do("linear_response", f, linear_response(m, f))

MeanSquareFluctuation == Do("mean_square_fluctuation", None, mean_square_fluctuation(m))

Init ==
    /\ m = NewModel
    /\ prev = NewModel
    /\ op = "init"
    /\ arg = None
    /\ ret = None
    /\ err = "none"
    /\ inp = NoInput
    /\ call = "none"
    /\ out = NoOutput

Next ==
    \/ GetMassWeights
    \/ SetMassWeights
    \/ GetHessian
    \/ SetHessian
    \/ GetHessianMw
    \/ SetHessianMw
    \/ GetCovariance
    \/ SetCovariance
    \/ GetCovarianceMw
    \/ SetCovarianceMw
    \/ Eigen
    \/ LinearResponse
    \/ MeanSquareFluctuation

Spec == Init /\ [][Next]_vars

(* ------------------------------ claims -------------------------------- *)

Setters ==
    {"set_mass_weights", "set_hessian", "set_hessian_mw", "set_covariance",
     "set_covariance_mw"}

Assigned(name) == op = name /\ err = "none"

\* C1.  After a (3n,3n) matrix H is assigned to hessian, in whatever state
\* the model was, a read of hessian returns H and leaves it cached, and the
\* next read of covariance (directly, or after that read of hessian)
\* returns pinv(H), not the covariance cached before the assignment.
C1_HessianRoundTrip ==
    Assigned("set_hessian") =>
        LET h == hessian_get(m)
        IN /\ h.err = "none" /\ h.ret = arg /\ h.m.hessian = arg
           /\ covariance_get(h.m).ret = pinv(arg)
           /\ covariance_get(m).ret = pinv(arg)

\* C1 witness: a Hessian was assigned while a covariance that is not its
\* pseudo-inverse was cached.
C1_Witness ==
    /\ Assigned("set_hessian")
    /\ prev.covariance # None
    /\ prev.covariance # pinv(arg)
    /\ prev.hessian # None

\* C4 as stated.  Assigning a (3n,3n) matrix to covariance leaves a cached
\* Hessian untouched: the next read of hessian returns the matrix that was
\* cached before the assignment.
C4_CovarianceSetKeepsHessian ==
    (Assigned("set_covariance") /\ prev.hessian # None) =>
        /\ m.hessian = prev.hessian
        /\ hessian_get(m).ret = prev.hessian

\* C4 as amended.  Assigning a (3n,3n) matrix C to covariance stores C and
\* clears the cached Hessian: the next read of hessian returns pinv(C),
\* recomputed from C, and the covariance read after it is still C.
C4_CovarianceSetInvalidatesHessian ==
    Assigned("set_covariance") =>
        /\ m.covariance = arg
        /\ m.hessian = None
        /\ hessian_get(m).ret = pinv(arg)
        /\ covariance_get(hessian_get(m).m).ret = arg

\* C4 witness: a covariance was assigned while a Hessian that is not its
\* pseudo-inverse was cached.
C4_Witness ==
    /\ Assigned("set_covariance")
    /\ prev.hessian # None
    /\ prev.hessian # pinv(arg)

\* C5 as stated.  Both hessian_mw and covariance_mw can be assigned; a
\* (3n,3n) matrix V assigned to hessian_mw is stored as the mass-weighted
\* Hessian and clears mass_weights and the mass-weighted covariance; V
\* assigned to covariance_mw is stored as the mass-weighted covariance and
\* clears mass_weights and the mass-weighted Hessian.
C5_MassWeightedWriteRule ==
    /\ (op = "set_hessian_mw" /\ ~ShapeMismatch(arg)) =>
          /\ err = "none"
          /\ m.hessian_mw = arg
          /\ m.mass_weights = None
          /\ m.covariance_mw = None
    /\ (op = "set_covariance_mw" /\ ~ShapeMismatch(arg)) =>
          /\ err = "none"
          /\ m.covariance_mw = arg
          /\ m.mass_weights = None
          /\ m.hessian_mw = None

\* C6 as stated.  A read of hessian_mw or covariance_mw on a model whose
\* mass-weighted caches are empty returns a (3n,3n) matrix, which is cached:
\* a second read returns the same value.
C6_MassWeightedReadReturns ==
    (/\ op \in {"get_hessian_mw", "get_covariance_mw"}
     /\ prev.hessian_mw = None
     /\ prev.covariance_mw = None) =>
        /\ err = "none"
        /\ ret.kind = "array"
        /\ ret.shape = <<Dim, Dim>>
        /\ (IF op = "get_hessian_mw" THEN hessian_mw_get(m)
            ELSE covariance_mw_get(m)).ret = ret

\* C9 as stated.  An assignment of a value whose shape is not (3n,3n) to
\* hessian, covariance, hessian_mw, covariance_mw or mass_weights fails with
\* the shape-mismatch error (IndexError) and leaves every cached quantity
\* as it was.
C9_RejectedAssignmentChangesNothing ==
    (op \in Setters /\ ShapeMismatch(arg)) =>
        /\ err = "IndexError"
        /\ m = prev

Resolved == call = "_prepare_values_for_interaction_matrix" /\ out.err = "none"

ListOf(x) == IF IsGiven(x) THEN Range(ValueOf(x)) ELSE {}

\* C7 as stated.  No pair listed in contact_pair_off is in the pair set the
\* adjacency resolver returns, also when it is listed in contact_pair_on.
C7_OffAlwaysWins ==
    Resolved =>
        \A p \in ListOf(inp.contact_pair_off) : p \notin Range(out.pairs)

\* C7 as amended.  A pair listed in contact_pair_off and not in
\* contact_pair_on is not in the pair set the adjacency resolver returns,
\* within the cutoff or not; a pair listed in both is in it (the on list is
\* applied after the off list).
C7_OffWinsUnlessOn ==
    Resolved =>
        \A p \in ListOf(inp.contact_pair_off) :
            p \in Range(out.pairs) <=> p \in ListOf(inp.contact_pair_on)

\* C7 witness: the resolver returned for an off list and an on list, the
\* off list naming a pair of different atoms that no cutoff excludes and
\* the on list does not name.
C7_Witness ==
    /\ Resolved
    /\ IsGiven(inp.contact_pair_on)
    /\ ~IsGiven(inp.force_field.cutoff_distance)
    /\ \E p \in ListOf(inp.contact_pair_off) :
          p[1] # p[2] /\ p \notin ListOf(inp.contact_pair_on)

\* C8 as stated.  No pair the adjacency resolver returns has i = j, and a
\* contact_pair_on list that names a pair (i,i) is rejected: the resolver
\* raises instead of returning a pair set.
C8_NoSelfInteraction ==
    call = "_prepare_values_for_interaction_matrix" =>
        /\ out.err = "none" => \A p \in Range(out.pairs) : p[1] # p[2]
        /\ (\E p \in ListOf(inp.contact_pair_on) : p[1] = p[2]) =>
              out.err # "none"

\* C2 as stated, on the calls it covers that pass no contact_pair_on list
\* (so that no pair (i,i) is involved).  In the matrix compute_kirchhoff
\* returns, the diagonal entry of atom i is the negated sum of the
\* off-diagonal entries of row i.
C2_KirchhoffRowsSumToZero ==
    (/\ call = "compute_kirchhoff"
     /\ out.err = "none"
     /\ ~IsGiven(inp.contact_pair_on)) =>
        \A i \in Atoms :
            out.matrix[<<i, i>>] =
                0 - SumOver([j \in Atoms \ {i} |-> out.matrix[<<i, j>>]],
                            Atoms \ {i})

\* C3 as stated, on the calls it covers that pass no contact_pair_on list
\* and whose atoms are at different places (so that every entry is a
\* number).  In the 3n x 3n matrix compute_hessian returns, with block
\* (i,j) at rows 3i..3i+2 and columns 3j..3j+2, the blocks of row i sum to
\* the zero 3x3 matrix, for each atom i.
C3_HessianRowBlocksSumToZero ==
    (/\ call = "compute_hessian"
     /\ out.err = "none"
     /\ ~IsGiven(inp.contact_pair_on)
     /\ \A i, j \in Atoms : i # j => inp.coord[i] # inp.coord[j]) =>
        \A i \in Atoms : \A x, y \in 0..2 :
            SumNum([j \in Atoms |-> out.matrix[3 * i + x][3 * j + y]], Atoms)
                = Num(0)

\* The largest per-atom displacement magnitude over all frames is the
\* amplitude: some frame has a waveform factor of magnitude 1 (the atom with
\* the longest vector then moves by amplitude * longest / longest).
ReachesAmplitude ==
    /\ \E k \in DOMAIN out.normed_disp : out.normed_disp[k] = 2
    /\ \E i \in Atoms :
          out.lengths[i][1] = inp.amplitude * out.lengths[i][2]

\* C10 as stated.  For every eigenvector, amplitude and number of frames the
\* largest per-atom displacement magnitude over the frames normal_mode
\* returns equals the amplitude.
C10_ReachesAmplitude ==
    (call = "normal_mode" /\ out.err = "none") => ReachesAmplitude

\* C10 as amended.  No displacement normal_mode returns is longer than the
\* amplitude, and the largest one equals the amplitude exactly when a frame
\* is sampled at a peak of the waveform: always for "triangle" (frame 0),
\* and for "sine" only when the number of frames is a multiple of 4 (not
\* for frames=10).
C10_ReachesAmplitudeAtPeak ==
    (call = "normal_mode" /\ out.err = "none") =>
        /\ \A i \in Atoms : out.lengths[i][1] <= inp.amplitude * out.lengths[i][2]
        /\ ReachesAmplitude <=>
              (inp.movement = "triangle" \/ inp.frames % 4 = 0)

\* C10 witness: the case of the specification, amplitude 1 and 10 frames of
\* a sine, where no frame reaches the amplitude.
C10_Witness ==
    /\ call = "normal_mode"
    /\ out.err = "none"
    /\ inp.movement = "sine"
    /\ inp.frames = 10
    /\ inp.amplitude = 1
    /\ ~ReachesAmplitude

\* The operations that read hessian or covariance without assigning either.
Reads ==
    {"get_hessian", "get_covariance", "eigen", "linear_response",
     "mean_square_fluctuation"}

Cached(s) == s.hessian # None /\ s.covariance # None

\* C11.  In every state reached from a new model by reads of hessian and
\* covariance (directly or through eigen, linear_response and
\* mean_square_fluctuation) and assignments to either of them: if both are
\* cached, one is the pseudo-inverse of the other, and a read leaves every
\* value that was cached before it in place.  "Pseudo-inverse taken as an
\* involution": pinv with rcond is an involution only on matrices without
\* eigenvalues below rcond times the largest one, so the relation is stated
\* in both directions, and the covariance is pinv of the Hessian wherever
\* pinv(pinv(covariance)) is the covariance.
C11_CacheCoherence ==
    /\ Cached(m) =>
          /\ m.covariance = pinv(m.hessian) \/ m.hessian = pinv(m.covariance)
          /\ pinv(pinv(m.covariance)) = m.covariance =>
                m.covariance = pinv(m.hessian)
    /\ op \in Reads =>
          /\ prev.hessian # None => m.hessian = prev.hessian
          /\ prev.covariance # None => m.covariance = prev.covariance

\* C11 witness: eigen read the Hessian of a model that had only an assigned
\* covariance cached, one with an eigenvalue below rcond times the largest;
\* both are cached now, and the Hessian was computed from that covariance.
C11_Witness ==
    /\ op = "eigen"
    /\ err = "none"
    /\ prev.hessian = None
    /\ prev.covariance # None
    /\ Cached(m)
    /\ m.covariance = prev.covariance
    /\ m.hessian = pinv(m.covariance)
    /\ pinv(pinv(m.covariance)) # m.covariance

====
